---- MODULE Spec2Model ----
(***************************************************************************)
(* Model of the day 12 board game engine (src/day12/game.rs) and of the    *)
(* way src/day12.rs drives it: a 4x4 grid of Option<GamePiece>, a          *)
(* GameState and a seeded StdRng, with the operations place, randomize,    *)
(* update_state, the Display rendering and the reset by replacement with   *)
(* GameBoard::default().                                                   *)
(***************************************************************************)
EXTENDS Integers, Sequences, FiniteSets, TLC

VARIABLES board, state, rng, last, calls, http, twin

vars == <<board, state, rng, last, calls, http, twin>>

----------------------------------------------------------------------------
(* Bounds of the model                                                     *)

\* number of calls explored after the opening position
MaxCalls == 4

\* number of randomize calls explored between two resets
MaxRandomize == 2

\* number of whole lines force-populated on a board before update_state
MaxForced == 2

\* number of HTTP requests explored
MaxRequests == 2

\* largest column number sent in the path of a place request
MaxWireColumn == 5

\* largest number of empty cells of a position a game is played out from
MaxToPlay == 7

----------------------------------------------------------------------------
(* Data model: GamePiece, Option<GamePiece>, GameState, GameError          *)

Cookie == "Cookie"
Milk == "Milk"
GamePiece == {Cookie, Milk}

\* Option::None of a cell
None == "None"

\* indices of the array [[Option<GamePiece>; 4]; 4]
Idx == 0..3

Running == [tag |-> "Running", piece |-> None]
Draw == [tag |-> "Draw", piece |-> None]
Winner(p) == [tag |-> "Winner", piece |-> p]
GameState == {Running, Draw} \cup {Winner(p) : p \in GamePiece}

ColumnFull == "ColumnFull"
GameOver == "GameOver"

Ok(s) == [tag |-> "Ok", val |-> s]
Err(e) == [tag |-> "Err", val |-> e]

\* what a call returns besides a Result: the unit value, or a String
NoResult == [tag |-> "None", val |-> None]
Text(t) == [tag |-> "Text", val |-> t]

\* board: Default::default() of [[Option<GamePiece>; 4]; 4]
EmptyBoard == [r \in Idx |-> [c \in Idx |-> None]]

----------------------------------------------------------------------------
(* The seeded generator.  StdRng::seed_from_u64(2024) is a deterministic   *)
(* stream of booleans; the generator state is the number of booleans drawn *)
(* since seeding, and GenBool(k) is the k-th boolean of the stream.  The   *)
(* stream is produced by the rand crate, outside this repository: the      *)
(* model fixes one stream, repeated with period 32.                        *)

RngStream ==
  << TRUE,  TRUE,  TRUE,  TRUE,
     FALSE, TRUE,  TRUE,  FALSE,
     FALSE, FALSE, FALSE, FALSE,
     TRUE,  FALSE, TRUE,  FALSE,
     TRUE,  FALSE, TRUE,  TRUE,
     FALSE, TRUE,  FALSE, TRUE,
     FALSE, TRUE,  TRUE,  TRUE,
     TRUE,  FALSE, FALSE, FALSE >>

GenBool(k) == RngStream[(k % 32) + 1]

\* rng: StdRng::seed_from_u64(2024), no boolean drawn yet
SeededRng == 0

----------------------------------------------------------------------------
(* Win / draw detection                                                    *)

get_row(b, row) == [i \in 1..4 |-> b[i - 1][row]]

get_column(b, column) == [i \in 1..4 |-> b[column][i - 1]]

\* get_diagonals returning the anti-diagonal first
get_diagonals_antiFirst(b) ==
  << [i \in 1..4 |-> b[i - 1][3 - (i - 1)]],
     [i \in 1..4 |-> b[i - 1][i - 1]] >>

\* get_diagonals reading the main diagonal twice
get_diagonals_mainTwice(b) ==
  << [i \in 1..4 |-> b[i - 1][i - 1]],
     [i \in 1..4 |-> b[i - 1][i - 1]] >>

get_diagonals(b) ==
  << [i \in 1..4 |-> b[i - 1][i - 1]],
     [i \in 1..4 |-> b[i - 1][3 - (i - 1)]] >>

get_combinations(b) ==
  [k \in 1..4 |-> get_row(b, k - 1)]
    \o [k \in 1..4 |-> get_column(b, k - 1)]
    \o get_diagonals(b)

\* all_same comparing the first three cells only
all_same_threeInLine(line) ==
  IF \A i \in 2..3 : line[i] = line[1] THEN line[1] ELSE None

all_same(line) ==
  IF \A i \in 2..Len(line) : line[i] = line[1] THEN line[1] ELSE None

\* Iterator::find_map(all_same): the first Some(..) in iteration order
find_map_all_same(combs) ==
  LET hits == {k \in 1..Len(combs) : all_same(combs[k]) # None}
  IN  IF hits = {} THEN None
      ELSE all_same(combs[CHOOSE k \in hits : \A j \in hits : k <= j])

\* update_state without the draw branch
update_state_noDraw(b, s) ==
  IF s = Running
  THEN LET winner == find_map_all_same(get_combinations(b))
       IN  IF winner # None THEN Winner(winner) ELSE Running
  ELSE s

update_state(b, s) ==
  IF s = Running
  THEN LET winner == find_map_all_same(get_combinations(b))
       IN  IF winner # None THEN Winner(winner)
           ELSE IF \A k \in 1..10 : \A i \in 1..4 : get_combinations(b)[k][i] # None
                THEN Draw
                ELSE Running
  ELSE s

----------------------------------------------------------------------------
(* GameBoard::place: the result and the board and state it leaves          *)

\* (0..4).rev().find(|&row| self.board[row][column].is_none())
\* (the result None of find is modelled by NoIndex)
NoIndex == -1

\* the scan without .rev(): the first empty row from the top
available_index_fromTop(b, column) ==
  LET free == {row \in Idx : b[row][column] = None}
  IN  IF free = {} THEN NoIndex
      ELSE CHOOSE row \in free : \A r \in free : row <= r

\* the scan over (1..4).rev(): row 0 is never used
available_index_skipsTopRow(b, column) ==
  LET free == {row \in 1..3 : b[row][column] = None}
  IN  IF free = {} THEN NoIndex
      ELSE CHOOSE row \in free : \A r \in free : r <= row

available_index(b, column) ==
  LET free == {row \in Idx : b[row][column] = None}
  IN  IF free = {} THEN NoIndex
      ELSE CHOOSE row \in free : \A r \in free : r <= row

\* place looking for a free row before looking at the outcome
place_columnFirst(b, s, team, column) ==
  IF available_index(b, column) = NoIndex
  THEN [board |-> b, state |-> s, result |-> Err(ColumnFull)]
  ELSE IF s = Running
       THEN LET nb == [b EXCEPT ![available_index(b, column)][column] = team]
                ns == update_state(nb, s)
            IN  [board |-> nb, state |-> ns, result |-> Ok(ns)]
       ELSE [board |-> b, state |-> s, result |-> Err(GameOver)]

\* place without the test of the outcome
place_ignoresOutcome(b, s, team, column) ==
  IF available_index(b, column) = NoIndex
  THEN [board |-> b, state |-> s, result |-> Err(ColumnFull)]
  ELSE LET nb == [b EXCEPT ![available_index(b, column)][column] = team]
           ns == update_state(nb, s)
       IN  [board |-> nb, state |-> ns, result |-> Ok(ns)]

\* place writing the top cell of a full column
place_fullOverwrites(b, s, team, column) ==
  IF s = Running
  THEN LET row == IF available_index(b, column) = NoIndex THEN 0
                  ELSE available_index(b, column)
           nb == [b EXCEPT ![row][column] = team]
           ns == update_state(nb, s)
       IN  [board |-> nb, state |-> ns, result |-> Ok(ns)]
  ELSE [board |-> b, state |-> s, result |-> Err(GameOver)]

\* place without the call of update_state
place_noUpdate(b, s, team, column) ==
  IF s = Running
  THEN IF available_index(b, column) = NoIndex
       THEN [board |-> b, state |-> s, result |-> Err(ColumnFull)]
       ELSE [board |-> [b EXCEPT ![available_index(b, column)][column] = team],
             state |-> s, result |-> Ok(s)]
  ELSE [board |-> b, state |-> s, result |-> Err(GameOver)]

place(b, s, team, column) ==
  IF s = Running
  THEN IF available_index(b, column) = NoIndex
       THEN [board |-> b, state |-> s, result |-> Err(ColumnFull)]
       ELSE LET nb == [b EXCEPT ![available_index(b, column)][column] = team]
                ns == update_state(nb, s)
            IN  [board |-> nb, state |-> ns, result |-> Ok(ns)]
  ELSE [board |-> b, state |-> s, result |-> Err(GameOver)]

----------------------------------------------------------------------------
(* GameBoard::randomize: 16 draws, row-major                               *)

\* randomize leaving a cell empty on a false draw
randomize_clearsOnFalse(g) ==
  [r \in Idx |-> [c \in Idx |->
     IF GenBool(g + 4 * r + c) THEN Cookie ELSE None]]

\* randomize drawing in column-major order
randomize_columnMajor(g) ==
  [r \in Idx |-> [c \in Idx |->
     IF GenBool(g + 4 * c + r) THEN Cookie ELSE Milk]]

\* randomize writing no piece to the last cell of a new board
randomize_skipsLastCell(g) ==
  [r \in Idx |-> [c \in Idx |->
     IF r = 3 /\ c = 3 THEN None
     ELSE IF GenBool(g + 4 * r + c) THEN Cookie ELSE Milk]]

randomize(g) ==
  [r \in Idx |-> [c \in Idx |->
     IF GenBool(g + 4 * r + c) THEN Cookie ELSE Milk]]

----------------------------------------------------------------------------
(* Display for GamePiece and GameBoard: the text as a sequence of lines,   *)
(* each line a sequence of glyphs                                          *)

Wall == "wall"
Blank == "blank"

PieceGlyph(p) == IF p = Cookie THEN "cookie" ELSE "milk"

CellGlyph(cell) == IF cell = None THEN Blank ELSE PieceGlyph(cell)

\* the row line reading board[i][r] instead of board[r][i]
RowLine_transposed(b, r) ==
  <<Wall>> \o [i \in 1..4 |-> CellGlyph(b[i - 1][r])] \o <<Wall>>

RowLine(b, r) == <<Wall>> \o [i \in 1..4 |-> CellGlyph(b[r][i - 1])] \o <<Wall>>

BottomWall == <<Wall, Wall, Wall, Wall, Wall, Wall>>

StateLines(s) ==
  IF s.tag = "Winner" THEN << <<PieceGlyph(s.piece), " wins!">> >>
  ELSE IF s = Draw THEN << <<"No winner.">> >>
  ELSE << >>

to_string(b, s) ==
  [r \in 1..4 |-> RowLine(b, r - 1)] \o <<BottomWall>> \o StateLines(s)

----------------------------------------------------------------------------
(* GameBoard::default() and the positions the exploration starts from.     *)
(* Every starting position is the result of playing a script of place      *)
(* calls on a default board, so it is a position the program reaches.      *)

GameBoardDefault == [rng |-> SeededRng, board |-> EmptyBoard, state |-> Running]

RECURSIVE PlayFrom(_, _, _)
PlayFrom(g, script, i) ==
  IF i > Len(script) THEN g
  ELSE LET out == place(g.board, g.state, script[i][1], script[i][2])
       IN  PlayFrom([g EXCEPT !.board = out.board, !.state = out.state],
                    script, i + 1)

Play(script) == PlayFrom(GameBoardDefault, script, 1)

\* two cookies stacked in column 0
TwoInColumn == << <<Cookie, 0>>, <<Cookie, 0>> >>

\* three milks on the bottom row, columns 0..2
NearRow == << <<Milk, 0>>, <<Milk, 1>>, <<Milk, 2>> >>

\* cookies on (3,0), (2,1), (1,2): a cookie on top of column 3 completes
\* the anti-diagonal
NearDiagonal ==
  << <<Cookie, 0>>, <<Milk, 1>>, <<Cookie, 1>>, <<Milk, 2>>, <<Milk, 2>>,
     <<Cookie, 2>>, <<Milk, 3>>, <<Cookie, 3>>, <<Milk, 3>> >>

\* the board of tests::test_game_board_draw without the top cells of
\* columns 2 and 3
NearDraw ==
  << <<Cookie, 0>>, <<Milk, 1>>, <<Milk, 2>>, <<Cookie, 3>>,
     <<Milk, 0>>, <<Cookie, 1>>, <<Cookie, 2>>, <<Milk, 3>>,
     <<Cookie, 0>>, <<Milk, 1>>, <<Milk, 2>>, <<Cookie, 3>>,
     <<Milk, 0>>, <<Cookie, 1>> >>

Openings == << << >>, TwoInColumn, NearRow, NearDiagonal, NearDraw >>

----------------------------------------------------------------------------
(* The state machine: one shared GameBoard, operated one call at a time    *)

Call(op, team, column, result) ==
  [op |-> op, team |-> team, column |-> column, result |-> result]

NoCall == Call("new", None, 0, NoResult)

\* no request has reached the router: the Mutex is free
NoHttp == [lock |-> 0, reqs |-> << >>]

\* no second GameBoard
NoTwin == [board |-> EmptyBoard, state |-> Running, rng |-> SeededRng,
           last |-> NoCall]

Init ==
  /\ \E k \in 1..Len(Openings) :
       /\ board = Play(Openings[k]).board
       /\ state = Play(Openings[k]).state
       /\ rng = Play(Openings[k]).rng
  /\ last = NoCall
  /\ calls = 0
  /\ http = NoHttp
  /\ twin = NoTwin

\* GameBoard::place(team, column)
Place(team, column) ==
  LET out == place(board, state, team, column)
  IN  /\ calls < MaxCalls
      /\ board' = out.board
      /\ state' = out.state
      /\ rng' = rng
      /\ last' = Call("place", team, column, out.result)
      /\ calls' = calls + 1
      /\ UNCHANGED <<http, twin>>

\* randomize followed by update_state
RandomizeThenUpdate ==
  /\ calls < MaxCalls
  /\ rng < 16 * MaxRandomize
  /\ board' = randomize(rng)
  /\ rng' = rng + 16
  /\ state' = update_state(randomize(rng), state)
  /\ last' = Call("randomize", None, 0, NoResult)
  /\ calls' = calls + 1
  /\ UNCHANGED <<http, twin>>

\* GameBoard::randomize()
Randomize ==
  /\ calls < MaxCalls
  /\ rng < 16 * MaxRandomize
  /\ board' = randomize(rng)
  /\ rng' = rng + 16
  /\ state' = state
  /\ last' = Call("randomize", None, 0, NoResult)
  /\ calls' = calls + 1
  /\ UNCHANGED <<http, twin>>

\* reset that clears the board and the outcome but keeps the generator
ResetKeepsRng ==
  /\ calls < MaxCalls
  /\ board' = GameBoardDefault.board
  /\ state' = GameBoardDefault.state
  /\ rng' = rng
  /\ last' = Call("reset", None, 0, NoResult)
  /\ calls' = calls + 1
  /\ UNCHANGED <<http, twin>>

\* reset: *state = GameBoard::default()
Reset ==
  /\ calls < MaxCalls
  /\ board' = GameBoardDefault.board
  /\ state' = GameBoardDefault.state
  /\ rng' = GameBoardDefault.rng
  /\ last' = Call("reset", None, 0, NoResult)
  /\ calls' = calls + 1
  /\ UNCHANGED <<http, twin>>

\* board: state.to_string()
Render ==
  /\ calls < MaxCalls
  /\ last' = Call("render", None, 0, Text(to_string(board, state)))
  /\ calls' = calls + 1
  /\ UNCHANGED <<board, state, rng, http, twin>>

Next ==
  \/ \E team \in GamePiece, column \in Idx : Place(team, column)
  \/ Randomize
  \/ Reset
  \/ Render

Spec == Init /\ [][Next]_vars

----------------------------------------------------------------------------
(* Force-populated boards, as the tests build them: cells are written      *)
(* directly and update_state is called afterwards                          *)

\* the board of tests::test_game_board_draw
DrawBoard ==
  [r \in Idx |-> [c \in Idx |->
     IF r % 2 = 0
     THEN (IF c \in {0, 3} THEN Milk ELSE Cookie)
     ELSE (IF c \in {0, 3} THEN Cookie ELSE Milk)]]

\* The 10 lines of the board as cells <<row, column>>: rows 0..3, columns
\* 0..3, the main diagonal (i,i), the anti-diagonal (i,3-i)
LineCells ==
  [k \in 1..4 |-> [i \in 1..4 |-> <<k - 1, i - 1>>]]
    \o [k \in 1..4 |-> [i \in 1..4 |-> <<i - 1, k - 1>>]]
    \o << [i \in 1..4 |-> <<i - 1, i - 1>>],
          [i \in 1..4 |-> <<i - 1, 3 - (i - 1)>>] >>

InitDetect ==
  /\ board \in {EmptyBoard, DrawBoard}
  /\ state = Running
  /\ rng = SeededRng
  /\ last = NoCall
  /\ calls = 0
  /\ http = NoHttp
  /\ twin = NoTwin

\* board.board[r][c] = Some(p) for the four cells of line k
Force(k, p) ==
  /\ calls < MaxForced
  /\ board' = [r \in Idx |-> [c \in Idx |->
                 IF \E i \in 1..4 : LineCells[k][i] = <<r, c>>
                 THEN p ELSE board[r][c]]]
  /\ last' = Call("force", p, k, NoResult)
  /\ calls' = calls + 1
  /\ UNCHANGED <<state, rng, http, twin>>

\* board.update_state()
Detect ==
  /\ state' = update_state(board, state)
  /\ last' = Call("update_state", None, 0, update_state(board, state))
  /\ UNCHANGED <<board, rng, calls, http, twin>>

NextDetect ==
  \/ \E k \in 1..10, p \in GamePiece : Force(k, p)
  \/ Detect

SpecDetect == InitDetect /\ [][NextDetect]_vars

----------------------------------------------------------------------------
(* The router of src/day12.rs: concurrent requests on one                  *)
(* Arc<Mutex<GameBoard>>.  A handler takes the lock, operates on the       *)
(* board, renders it and drops the guard when it returns.  http.lock is    *)
(* the request holding the Mutex (0 when it is free); seen is the board    *)
(* and outcome left by the handler's own operation.                        *)

OK == 200
BAD_REQUEST == 400
SERVICE_UNAVAILABLE == 503

\* columns a client may send: Path<(GamePiece, u8)>
WireColumns == 0..MaxWireColumn

\* the range test (1..6).contains(&column)
ValidColumn_offByOne(column) == column \in 1..5

\* (1..5).contains(&column)
ValidColumn(column) == column \in 1..4

Request(kind, team, column) ==
  [kind |-> kind, team |-> team, column |-> column, pc |-> "arrived",
   status |-> 0, body |-> << >>,
   seen |-> [board |-> EmptyBoard, state |-> Running]]

InCritical(i) == http.reqs[i].pc \in {"locked", "operated"}

\* a request reaches its handler
Arrive(kind, team, column) ==
  /\ Len(http.reqs) < MaxRequests
  /\ http' = [http EXCEPT !.reqs = Append(@, Request(kind, team, column))]
  /\ UNCHANGED <<board, state, rng, last, calls, twin>>

\* place: return StatusCode::BAD_REQUEST before state.lock()
Reject(i) ==
  /\ http.reqs[i].pc = "arrived"
  /\ http.reqs[i].kind = "place"
  /\ ~ValidColumn(http.reqs[i].column)
  /\ http' = [http EXCEPT !.reqs[i].pc = "done",
                          !.reqs[i].status = BAD_REQUEST]
  /\ UNCHANGED <<board, state, rng, last, calls, twin>>

\* state.lock() returning although another handler holds the guard
Acquire_noLock(i) ==
  /\ http.reqs[i].pc = "arrived"
  /\ http.reqs[i].kind = "place" => ValidColumn(http.reqs[i].column)
  /\ http' = [http EXCEPT !.lock = i, !.reqs[i].pc = "locked"]
  /\ UNCHANGED <<board, state, rng, last, calls, twin>>

\* state.lock().unwrap(): blocks while another handler holds the guard
Acquire(i) ==
  /\ http.reqs[i].pc = "arrived"
  /\ http.reqs[i].kind = "place" => ValidColumn(http.reqs[i].column)
  /\ http.lock = 0
  /\ http' = [http EXCEPT !.lock = i, !.reqs[i].pc = "locked"]
  /\ UNCHANGED <<board, state, rng, last, calls, twin>>

\* the handler's operation on the locked board
Operated(i, b, s, status) ==
  [http EXCEPT !.reqs[i].pc = "operated", !.reqs[i].status = status,
               !.reqs[i].seen = [board |-> b, state |-> s]]

OperateBoard(i) ==
  /\ http.reqs[i].kind = "board"
  /\ http' = Operated(i, board, state, OK)
  /\ UNCHANGED <<board, state, rng, last>>

OperatePlace(i) ==
  /\ http.reqs[i].kind = "place"
  /\ IF state = Running
     THEN LET out == place(board, state, http.reqs[i].team,
                           http.reqs[i].column - 1)
          IN  /\ board' = out.board
              /\ state' = out.state
              /\ last' = Call("place", http.reqs[i].team,
                              http.reqs[i].column - 1, out.result)
              /\ http' = Operated(i, out.board, out.state,
                                  IF out.result.tag = "Ok" THEN OK
                                  ELSE SERVICE_UNAVAILABLE)
     ELSE /\ http' = Operated(i, board, state, SERVICE_UNAVAILABLE)
          /\ UNCHANGED <<board, state, last>>
  /\ rng' = rng

OperateRandomize(i) ==
  /\ http.reqs[i].kind = "randomize"
  /\ board' = randomize(rng)
  /\ rng' = rng + 16
  /\ state' = state
  /\ last' = Call("randomize", None, 0, NoResult)
  /\ http' = Operated(i, randomize(rng), state, OK)

OperateReset(i) ==
  /\ http.reqs[i].kind = "reset"
  /\ board' = GameBoardDefault.board
  /\ state' = GameBoardDefault.state
  /\ rng' = GameBoardDefault.rng
  /\ last' = Call("reset", None, 0, NoResult)
  /\ http' = Operated(i, GameBoardDefault.board, GameBoardDefault.state, OK)

Operate(i) ==
  /\ http.reqs[i].pc = "locked"
  /\ OperateBoard(i) \/ OperatePlace(i) \/ OperateRandomize(i) \/ OperateReset(i)
  /\ UNCHANGED <<calls, twin>>

\* state.to_string() as the body, then the guard is dropped on return
Respond(i) ==
  /\ http.reqs[i].pc = "operated"
  /\ http' = [http EXCEPT !.lock = IF @ = i THEN 0 ELSE @,
                          !.reqs[i].pc = "done",
                          !.reqs[i].body = to_string(board, state)]
  /\ UNCHANGED <<board, state, rng, last, calls, twin>>

NextHttp ==
  \/ \E kind \in {"board", "randomize", "reset"} : Arrive(kind, None, 0)
  \/ \E team \in GamePiece, column \in WireColumns : Arrive("place", team, column)
  \/ \E i \in 1..Len(http.reqs) : Reject(i)
  \/ \E i \in 1..Len(http.reqs) : Acquire(i)
  \/ \E i \in 1..Len(http.reqs) : Operate(i)
  \/ \E i \in 1..Len(http.reqs) : Respond(i)

SpecHttp == Init /\ [][NextHttp]_vars

----------------------------------------------------------------------------
(* Two boards built by GameBoard::default(), each with its own generator,  *)
(* given the same calls: the second board is the variable twin             *)

InitTwin ==
  /\ board = GameBoardDefault.board
  /\ state = GameBoardDefault.state
  /\ rng = GameBoardDefault.rng
  /\ last = NoCall
  /\ calls = 0
  /\ http = NoHttp
  /\ twin = [board |-> GameBoardDefault.board, state |-> GameBoardDefault.state,
             rng |-> GameBoardDefault.rng, last |-> NoCall]

\* place(team, column) on both boards
TwinPlace(team, column) ==
  LET out == place(board, state, team, column)
      out2 == place(twin.board, twin.state, team, column)
  IN  /\ calls < MaxCalls
      /\ board' = out.board
      /\ state' = out.state
      /\ rng' = rng
      /\ last' = Call("place", team, column, out.result)
      /\ twin' = [board |-> out2.board, state |-> out2.state, rng |-> twin.rng,
                  last |-> Call("place", team, column, out2.result)]
      /\ calls' = calls + 1
      /\ UNCHANGED http

\* randomize() on both boards, both drawing from one shared generator
TwinRandomize_sharedGenerator ==
  /\ calls < MaxCalls
  /\ rng < 16 * MaxRandomize
  /\ board' = randomize(rng)
  /\ rng' = rng + 16
  /\ state' = state
  /\ last' = Call("randomize", None, 0, NoResult)
  /\ twin' = [twin EXCEPT !.board = randomize(rng + 16), !.rng = twin.rng + 16,
                          !.last = Call("randomize", None, 0, NoResult)]
  /\ calls' = calls + 1
  /\ UNCHANGED http

\* randomize() on both boards, each drawing from its own self.rng
TwinRandomize ==
  /\ calls < MaxCalls
  /\ rng < 16 * MaxRandomize
  /\ board' = randomize(rng)
  /\ rng' = rng + 16
  /\ state' = state
  /\ last' = Call("randomize", None, 0, NoResult)
  /\ twin' = [twin EXCEPT !.board = randomize(twin.rng), !.rng = twin.rng + 16,
                          !.last = Call("randomize", None, 0, NoResult)]
  /\ calls' = calls + 1
  /\ UNCHANGED http

NextTwin ==
  \/ \E team \in GamePiece, column \in Idx : TwinPlace(team, column)
  \/ TwinRandomize

SpecTwin == InitTwin /\ [][NextTwin]_vars

----------------------------------------------------------------------------
(* A game played out: from a position reached by place calls on a new      *)
(* board, the callers keep calling place on columns that have an empty     *)
(* cell, with no randomize and no reset.  calls is the number of place     *)
(* calls that have succeeded on the board since it was new.                *)

Pieces(b) == Cardinality({rc \in Idx \X Idx : b[rc[1]][rc[2]] # None})

InitPlay ==
  /\ \E k \in 1..Len(Openings) :
       /\ 16 - Pieces(Play(Openings[k]).board) <= MaxToPlay
       /\ board = Play(Openings[k]).board
       /\ state = Play(Openings[k]).state
       /\ rng = Play(Openings[k]).rng
       /\ calls = Len(Openings[k])
  /\ last = NoCall
  /\ http = NoHttp
  /\ twin = NoTwin

\* GameBoard::place(team, column) on a column with an empty cell
PlayOn(team, column) ==
  \E out \in {place(board, state, team, column)} :
      /\ \E r \in Idx : board[r][column] = None
      /\ board' = out.board
      /\ state' = out.state
      /\ rng' = rng
      /\ last' = Call("place", team, column, out.result)
      /\ calls' = IF out.result.tag = "Ok" THEN calls + 1 ELSE calls
      /\ UNCHANGED <<http, twin>>

NextPlay == \E team \in GamePiece, column \in Idx : PlayOn(team, column)

\* the callers keep placing as long as a column has an empty cell
SpecPlay == InitPlay /\ [][NextPlay]_vars /\ WF_vars(NextPlay)

----------------------------------------------------------------------------
(* Properties                                                              *)

Terminal(s) == s # Running

ColumnHasRoom(b, column) == \E r \in Idx : b[r][column] = None

HoldsFour(b, k, p) == \A i \in 1..4 : b[LineCells[k][i][1]][LineCells[k][i][2]] = p

SomeLine(b, p) == \E k \in 1..10 : HoldsFour(b, k, p)

AllOccupied(b) == \A r \in Idx, c \in Idx : b[r][c] # None

Unchanged == board' = board /\ state' = state /\ rng' = rng

PlaceFailed == last'.op = "place" /\ last'.result.tag = "Err"

PlaceSucceeded == last'.op = "place" /\ last'.result.tag = "Ok"

\* C1: in a state whose outcome is Winner or Draw every place call, for any
\* piece and any column (a full one included), returns Err(GameOver) and
\* leaves the grid, the outcome and the generator as they were.
TerminalLock ==
  [][(Terminal(state) /\ last'.op = "place")
       => (last'.result = Err(GameOver) /\ Unchanged)]_vars

TerminalLockWitness ==
  /\ last.op = "place"
  /\ last.result = Err(GameOver)
  /\ board[0][last.column] # None

\* C2 as stated: once the outcome is Winner or Draw no call other than a
\* reset changes any of the 16 cells.
TerminalGridFrozen ==
  [][(Terminal(state) /\ last'.op # "reset") => board' = board]_vars

\* C2 amended: once the outcome is Winner or Draw, place and render leave
\* all 16 cells as they are until the next reset; randomize is the one call
\* that still rewrites the grid (every cell becomes a piece).
TerminalGridFrozenButRandomize ==
  [][Terminal(state)
       => /\ last'.op \in {"place", "render"} => board' = board
          /\ last'.op = "randomize"
               => \A r \in Idx, c \in Idx : board'[r][c] \in GamePiece]_vars

TerminalGridWitness ==
  /\ Terminal(state)
  /\ last.op = "randomize"
  /\ calls >= 2

\* C3: a place call made while Running on a column with an empty cell puts
\* the piece in the empty cell of that column with the largest row index
\* and changes no other cell.
PlacementGravity ==
  [][(last'.op = "place" /\ state = Running
        /\ ColumnHasRoom(board, last'.column))
       => \E r \in Idx :
            /\ board[r][last'.column] = None
            /\ \A r2 \in Idx : r2 > r => board[r2][last'.column] # None
            /\ board' = [board EXCEPT ![r][last'.column] = last'.team]]_vars

PlacementGravityWitness ==
  /\ last.op = "place"
  /\ last.result.tag = "Ok"
  /\ board[2][last.column] # None
  /\ board[1][last.column] = last.team
  /\ board[0][last.column] = None

\* C4: after a successful place the outcome returned equals the outcome
\* stored, and it is Winner(p) when some line holds four p, otherwise Draw
\* when all 16 cells are occupied, otherwise Running.
PlaceOutcome ==
  [][PlaceSucceeded
       => /\ last'.result.val = state'
          /\ \/ \E p \in GamePiece : state' = Winner(p) /\ SomeLine(board', p)
             \/ /\ \A p \in GamePiece : ~SomeLine(board', p)
                /\ AllOccupied(board')
                /\ state' = Draw
             \/ /\ \A p \in GamePiece : ~SomeLine(board', p)
                /\ ~AllOccupied(board')
                /\ state' = Running]_vars

PlaceOutcomeWitness ==
  /\ last.op = "place"
  /\ last.result = Ok(Draw)
  /\ AllOccupied(board)

\* C5: update_state on a Running board, force-populated or not, declares as
\* winner the piece of the first line, in the order rows 0..3, columns 0..3,
\* main diagonal, anti-diagonal, whose four cells hold the same piece, and
\* declares no winner when no line qualifies.
FirstLine(b) ==
  LET hits == {k \in 1..10 : \E p \in GamePiece : HoldsFour(b, k, p)}
  IN  IF hits = {} THEN 0 ELSE CHOOSE k \in hits : \A j \in hits : k <= j

WinDetectionOrder ==
  [][(last'.op = "update_state" /\ state = Running)
       => IF FirstLine(board) = 0
          THEN state'.tag # "Winner"
          ELSE state' = Winner(board[LineCells[FirstLine(board)][1][1]]
                                    [LineCells[FirstLine(board)][1][2]])]_vars

WinDetectionOrderWitness ==
  /\ last.op = "update_state"
  /\ state = Winner(Milk)
  /\ SomeLine(board, Cookie)
  /\ SomeLine(board, Milk)

\* C6: a place call made while Running on a column whose four cells are
\* occupied returns Err(ColumnFull) and leaves the grid, the outcome and the
\* generator as they were.
ColumnFullRejected ==
  [][(last'.op = "place" /\ state = Running
        /\ ~ColumnHasRoom(board, last'.column))
       => (last'.result = Err(ColumnFull) /\ Unchanged)]_vars

ColumnFullWitness ==
  /\ last.op = "place"
  /\ last.result = Err(ColumnFull)
  /\ rng = SeededRng

\* Number of occupied cells of a column
Height(b, column) == Cardinality({r \in Idx : b[r][column] # None})

\* C7 as stated: with no randomize since the last reset, a place call on a
\* column holding k < 4 pieces lands on row 3 - k whatever the pieces, and a
\* place call on a column holding 4 pieces fails with ColumnFull and leaves
\* the board unchanged.
ColumnStacking ==
  [][(last'.op = "place" /\ rng = SeededRng)
       => IF Height(board, last'.column) < 4
          THEN board' = [board EXCEPT
                 ![3 - Height(board, last'.column)][last'.column] = last'.team]
          ELSE last'.result = Err(ColumnFull) /\ board' = board]_vars

\* C7 amended: the same while the outcome is Running at the call; once a
\* placement has ended the game (four equal pieces in the column, another
\* completed line or a full board) every further attempt fails with
\* GameOver, and every failed attempt leaves the board unchanged.
ColumnStackingWhileRunning ==
  [][(last'.op = "place" /\ rng = SeededRng)
       => IF state = Running
          THEN IF Height(board, last'.column) < 4
               THEN /\ last'.result.tag = "Ok"
                    /\ board' = [board EXCEPT
                         ![3 - Height(board, last'.column)][last'.column]
                            = last'.team]
               ELSE last'.result = Err(ColumnFull) /\ board' = board
          ELSE last'.result = Err(GameOver) /\ board' = board]_vars

ColumnStackingWitness ==
  /\ last.op = "place"
  /\ last.result = Err(ColumnFull)
  /\ state = Running
  /\ \E c \in Idx : Height(board, c) = 0

\* C8: randomize is possible in every state, leaves each of the 16 cells
\* holding a piece and leaves the outcome as it was; after a randomize in a
\* Winner(p) state the rendering still ends with the line "p wins!".
RandomizeKeepsOutcome ==
  [][/\ (rng < 16 * MaxRandomize /\ calls < MaxCalls) => ENABLED Randomize
     /\ last'.op = "randomize"
          => /\ \A r \in Idx, c \in Idx : board'[r][c] \in GamePiece
             /\ state' = state
             /\ state.tag = "Winner"
                  => to_string(board', state')[Len(to_string(board', state'))]
                       = <<PieceGlyph(state.piece), " wins!">>]_vars

RandomizeKeepsOutcomeWitness ==
  /\ last.op = "randomize"
  /\ state.tag = "Winner"
  /\ \E p \in GamePiece : p # state.piece /\ SomeLine(board, p)

\* C9 as stated: the outcome is recomputed from the grid right after every
\* successful place and right after every randomize, and render and a
\* failed place never change it.
OutcomeRecomputed ==
  [][/\ (PlaceSucceeded \/ last'.op = "randomize")
          => state' = update_state(board', state)
     /\ (PlaceFailed \/ last'.op = "render") => state' = state]_vars

\* C9 amended: the outcome is recomputed from the grid right after every
\* successful place and at no other time: randomize, render and a failed
\* place never change it.
OutcomeRecomputedByPlaceOnly ==
  [][/\ PlaceSucceeded => state' = update_state(board', state)
     /\ (PlaceFailed \/ last'.op \in {"render", "randomize"})
          => state' = state]_vars

OutcomeRecomputedWitness ==
  /\ last.op = "randomize"
  /\ state = Running
  /\ update_state(board, state) # Running

\* the text of tests::test_display_game_board
EmptyBoardText ==
  << <<Wall, Blank, Blank, Blank, Blank, Wall>>,
     <<Wall, Blank, Blank, Blank, Blank, Wall>>,
     <<Wall, Blank, Blank, Blank, Blank, Wall>>,
     <<Wall, Blank, Blank, Blank, Blank, Wall>>,
     <<Wall, Wall, Wall, Wall, Wall, Wall>> >>

\* C10: reset from any state gives the state of a new board: 16 empty
\* cells, outcome Running, generator at the start of its sequence (the next
\* randomize draws the first 16 booleans again); a reset right after a reset
\* changes nothing, and the rendering after a reset is the empty-board text.
ResetGivesFreshBoard ==
  [][/\ last'.op = "reset"
          => /\ \A r \in Idx, c \in Idx : board'[r][c] = None
             /\ state' = Running
             /\ rng' = Play(<< >>).rng
             /\ to_string(board', state') = EmptyBoardText
             /\ last.op = "reset" => Unchanged
     /\ (last.op = "reset" /\ last'.op = "randomize")
          => board' = randomize(SeededRng)]_vars

ResetWitness ==
  /\ last.op = "reset"
  /\ to_string(board, state) = EmptyBoardText
  /\ calls >= 3

\* C11: a cell that is occupied stays occupied through every call other
\* than a reset: place, randomize and render never turn an occupied cell
\* into an empty one (randomize may change the piece it holds).
OccupiedStaysOccupied ==
  [][last'.op # "reset"
       => \A r \in Idx, c \in Idx : board[r][c] # None => board'[r][c] # None]_vars

OccupiedStaysOccupiedWitness ==
  /\ last.op = "randomize"
  /\ rng = 32
  /\ \E r \in Idx, c \in Idx : board[r][c] # randomize(SeededRng)[r][c]

\* C12: among the concurrent requests at most one handler is between
\* taking and dropping the lock, it is the one holding the Mutex, the board
\* it operated on is not changed by another request before it answers, and
\* the body of every answer is the rendering of the board as the handler's
\* own operation left it.
MutualExclusion ==
  /\ Cardinality({i \in 1..Len(http.reqs) : InCritical(i)}) <= 1
  /\ \A i \in 1..Len(http.reqs) :
       /\ InCritical(i) => http.lock = i
       /\ http.reqs[i].pc = "operated"
            => http.reqs[i].seen = [board |-> board, state |-> state]
       /\ (http.reqs[i].pc = "done" /\ http.reqs[i].status # BAD_REQUEST)
            => http.reqs[i].body
                 = to_string(http.reqs[i].seen.board, http.reqs[i].seen.state)

MutualExclusionWitness ==
  /\ Len(http.reqs) = 2
  /\ http.reqs[1].kind = "reset"
  /\ http.reqs[1].pc = "arrived"
  /\ http.reqs[2].kind = "randomize"
  /\ http.reqs[2].pc = "operated"

\* C15: a place request whose column is outside 1..4 is answered
\* BAD_REQUEST without taking the lock and without a call of the engine:
\* the step that answers it leaves the grid, the outcome and the generator
\* unchanged, and the engine's place is only called with a column in 0..3.
ColumnOutOfRange(i) ==
  http'.reqs[i].kind = "place" /\ http'.reqs[i].column \notin 1..4

BadColumnRejected ==
  [][/\ \A i \in 1..Len(http'.reqs) :
          ColumnOutOfRange(i)
            => /\ http'.reqs[i].pc \in {"arrived", "done"}
               /\ http'.lock # i
               /\ http'.reqs[i].pc = "done"
                    => http'.reqs[i].status = BAD_REQUEST
     /\ \A i \in 1..Len(http.reqs) :
          (ColumnOutOfRange(i) /\ http'.reqs[i] # http.reqs[i])
            => (Unchanged /\ last' = last /\ http'.lock = http.lock)
     /\ last'.op = "place" => last'.column \in 0..3]_vars

BadColumnRejectedWitness ==
  /\ Len(http.reqs) = 2
  /\ http.lock = 1
  /\ http.reqs[1].kind = "place"
  /\ http.reqs[2].kind = "place"
  /\ http.reqs[2].column = 0
  /\ http.reqs[2].status = BAD_REQUEST

GlyphOf(cell) ==
  CASE cell = Cookie -> "cookie"
    [] cell = Milk -> "milk"
    [] OTHER -> "blank"

\* C14: render changes neither the grid, the outcome nor the generator, and
\* its text is the four rows 0..3, each a wall, the glyphs of columns 0..3
\* and a wall, then a line of six walls, then one more line exactly when
\* the outcome is terminal: the winner's glyph and " wins!", or
\* "No winner.".
RenderFormat ==
  [][last'.op = "render"
       => /\ Unchanged
          /\ Len(last'.result.val) = IF Terminal(state) THEN 6 ELSE 5
          /\ \A r \in Idx :
               last'.result.val[r + 1]
                 = <<"wall", GlyphOf(board[r][0]), GlyphOf(board[r][1]),
                     GlyphOf(board[r][2]), GlyphOf(board[r][3]), "wall">>
          /\ last'.result.val[5] = <<"wall", "wall", "wall", "wall", "wall", "wall">>
          /\ state.tag = "Winner"
               => last'.result.val[6] = <<GlyphOf(state.piece), " wins!">>
          /\ state = Draw => last'.result.val[6] = <<"No winner.">>]_vars

RenderFormatWitness ==
  /\ last.op = "render"
  /\ state.tag = "Winner"
  /\ Len(last.result.val) = 6
  /\ \E r \in Idx, c \in Idx : board[r][c] # board[c][r]

\* C16: randomize draws 16 booleans, the draw number 4*r+c counted from the
\* generator position at the call going to cell (r,c), true giving Cookie
\* and false Milk; place and render leave the generator position alone and
\* reset puts it back to the start, so the grid of a randomize is the one
\* fixed by the number of randomize calls since the last reset.
RandomizeDraws ==
  [][/\ last'.op = "randomize"
          => /\ rng' = rng + 16
             /\ \A r \in Idx, c \in Idx :
                  board'[r][c] = IF RngStream[((rng + 4 * r + c) % 32) + 1]
                                 THEN Cookie ELSE Milk
     /\ last'.op \in {"place", "render"} => rng' = rng
     /\ last'.op = "reset" => rng' = 0
     /\ rng' % 16 = 0
     /\ (last'.op = "randomize" /\ rng = 0) => board' = randomize(SeededRng)]_vars

RandomizeDrawsWitness ==
  /\ last.op = "randomize"
  /\ rng = 32
  /\ board[0][1] = Milk
  /\ board[1][0] = Milk
  /\ board[0][3] = Cookie
  /\ board[3][0] = Cookie

\* C17: after a successful place every line whose four cells hold one same
\* piece holds the piece just placed, so no placement leaves complete lines
\* of both pieces.
SingleWinningPiece ==
  [][PlaceSucceeded
       => \A k \in 1..10, p \in GamePiece :
            HoldsFour(board', k, p) => p = last'.team]_vars

SingleWinningPieceWitness ==
  /\ last.op = "place"
  /\ last.result = Ok(Winner(Cookie))
  /\ HoldsFour(board, 10, Cookie)

\* C18: with no randomize since the board was new or reset, the outcome
\* agrees with the grid: Winner(p) only with a line of four p, Draw only on
\* a full grid without a complete line, Running only on a grid with an
\* empty cell and without a complete line.
OutcomeAgreesWithGrid ==
  rng = SeededRng
    => /\ \A p \in GamePiece : state = Winner(p) => SomeLine(board, p)
       /\ state = Draw
            => AllOccupied(board) /\ \A p \in GamePiece : ~SomeLine(board, p)
       /\ state = Running
            => ~AllOccupied(board) /\ \A p \in GamePiece : ~SomeLine(board, p)

OutcomeAgreesWitness ==
  /\ rng = SeededRng
  /\ state = Draw
  /\ last.op = "render"

\* C19: after a randomize no place succeeds until the next reset: when the
\* outcome is Running the call fails with ColumnFull, when it is terminal
\* with GameOver, and the outcome stays what it was when randomize ran,
\* whatever lines the random grid holds.
NoPlaceAfterRandomize ==
  [][/\ (rng > 0 /\ last'.op = "place")
          => /\ last'.result
                  = IF state = Running THEN Err(ColumnFull) ELSE Err(GameOver)
             /\ board' = board
     /\ (rng > 0 /\ last'.op # "reset") => state' = state
     /\ last'.op = "randomize" => state' = state]_vars

NoPlaceAfterRandomizeWitness ==
  /\ rng > 0
  /\ last.op = "place"
  /\ last.result = Err(ColumnFull)
  /\ state = Running
  /\ SomeLine(board, Cookie)
  /\ SomeLine(board, Milk)

\* C20: in every reachable state no occupied cell lies directly above an
\* empty cell of its column.
NoFloatingPieces ==
  \A r \in 0..2, c \in Idx : board[r][c] # None => board[r + 1][c] # None

NoFloatingPiecesWitness ==
  /\ last.op = "place"
  /\ last.result.tag = "Ok"
  /\ Height(board, last.column) = 3
  /\ \E c \in Idx : Height(board, c) = 1

\* C21: a game ends: no more than 16 place calls succeed on a board, the
\* number of pieces on it is the number of calls that succeeded, after the
\* 16th the outcome is Winner or Draw, and when the callers keep placing
\* on columns with an empty cell the outcome eventually is Winner or Draw.
GameEnds ==
  [](/\ calls <= 16
     /\ Pieces(board) = calls
     /\ calls = 16 => Terminal(state)
     /\ <>Terminal(state))

GameEndsWitness ==
  /\ calls = 16
  /\ last.op = "place"
  /\ last.result = Ok(Draw)
  /\ last.column = 3

====
